---- MODULE Spec2Model ----
(***************************************************************************)
(* Model of the Gauge R&R analysis object of GageRnR/gageRnR.py and its    *)
(* base class GageRnR/statistics.py.                                       *)
(*                                                                         *)
(* Numbers are exact rationals extended with the IEEE special values the   *)
(* numpy scalar arithmetic of the code produces: a number is a record      *)
(* [n, d] in lowest terms with d > 0, or d = 0 for NaN (n = 0), +inf       *)
(* (n = 1) and -inf (n = -1).  Rounding error of binary floating point is  *)
(* not modelled.  Input arrays are non-empty along every axis.             *)
(***************************************************************************)
EXTENDS Integers, Sequences, FiniteSets, TLC

(***************************************************************************)
(* Bounds of the model.                                                    *)
(***************************************************************************)
MaxDim == 2      \* largest extent of one axis of the input array
MaxCells == 8    \* largest number of observations of the input array
MaxVal == 1      \* observations are integers 0 .. MaxVal

VARIABLES
    arg,            \* the array handed to the constructor
    exists,         \* TRUE once GageRnR.__init__ has run
    data,           \* self.data
    operators,      \* self.operators
    parts,          \* self.parts
    measurements,   \* self.measurements
    labels,         \* self.labels
    hasResult,      \* hasattr(self, 'result')
    result,         \* self.result
    lastCall,       \* the last call on the object and how it ended
    ret,            \* what the last summary / box-data call returned
    history         \* the last two results calculate() returned, older first

vars == <<arg, exists, data, operators, parts, measurements, labels,
          hasResult, result, lastCall, ret, history>>

(***************************************************************************)
(* Number arithmetic: Python `+ - * / <` on numpy.float64 values.          *)
(***************************************************************************)
Abs(x) == IF x < 0 THEN -x ELSE x

RECURSIVE GCD(_, _)
GCD(a, b) == IF b = 0 THEN a ELSE GCD(b, a % b)

\* the fraction n/d (d # 0) in lowest terms
Rat(n, d) ==
    IF d = 1 THEN [n |-> n, d |-> 1]
    ELSE IF n = 0 THEN [n |-> 0, d |-> 1]
    ELSE LET g == GCD(Abs(n), Abs(d))
             s == IF (d < 0) = (n < 0) THEN 1 ELSE -1
         IN  [n |-> s * (Abs(n) \div g), d |-> Abs(d) \div g]

Num(i) == [n |-> i, d |-> 1]
Zero == Num(0)
NaN == [n |-> 0, d |-> 0]
Inf(s) == [n |-> s, d |-> 0]

IsNaN(a) == a.d = 0 /\ a.n = 0
Sign(a) == IF a.n > 0 THEN 1 ELSE IF a.n < 0 THEN -1 ELSE 0

Add(a, b) ==
    IF a.d = b.d /\ a.d # 0 THEN Rat(a.n + b.n, a.d)
    ELSE IF IsNaN(a) \/ IsNaN(b) THEN NaN
    ELSE IF a.d = 0 THEN (IF b.d = 0 /\ b.n # a.n THEN NaN ELSE a)
    ELSE IF b.d = 0 THEN b
    ELSE Rat(a.n * b.d + b.n * a.d, a.d * b.d)

Neg(a) == [n |-> -a.n, d |-> a.d]

Sub(a, b) == Add(a, Neg(b))

Mul(a, b) ==
    IF IsNaN(a) \/ IsNaN(b) THEN NaN
    ELSE IF a.d = 0 \/ b.d = 0
         THEN (IF Sign(a) * Sign(b) = 0 THEN NaN ELSE Inf(Sign(a) * Sign(b)))
    ELSE Rat(a.n * b.n, a.d * b.d)

\* numpy true division: x/0 is nan or +-inf (with a RuntimeWarning), no raise
Div(a, b) ==
    IF IsNaN(a) \/ IsNaN(b) THEN NaN
    ELSE IF b.d = 0 THEN (IF a.d = 0 THEN NaN ELSE Zero)
    ELSE IF b.n = 0 THEN (IF a.n = 0 THEN NaN ELSE Inf(Sign(a)))
    ELSE IF a.d = 0 THEN Inf(Sign(a) * Sign(b))
    ELSE Rat(a.n * b.d, a.d * b.n)

Sq(a) == Mul(a, a)

\* a < b ; every comparison with NaN is False
Lt(a, b) ==
    /\ ~IsNaN(a)
    /\ ~IsNaN(b)
    /\ IF a.d = 0 /\ b.d = 0 THEN a.n < b.n
       ELSE IF a.d = 0 THEN a.n < 0
       ELSE IF b.d = 0 THEN b.n > 0
       ELSE a.n * b.d < b.n * a.d

\* a >= b
Ge(a, b) == ~IsNaN(a) /\ ~IsNaN(b) /\ ~Lt(a, b)

\* math.sqrt(x) for x >= 0 or NaN: the non-negative real whose square is x.
\* (math.sqrt raises ValueError on x < 0: see SqrtRaises.)
Sqrt(x) == [sq |-> x]

SqrtRaises(x) == Lt(x, Zero)

\* 100 * math.sqrt(x)
Times100(s) == [sq |-> Mul(Num(10000), s.sq)]

\* the literal 100
Hundred == [sq |-> Num(10000)]

\* Python `x / y` raises ZeroDivisionError when both operands are Python
\* numbers (the elements of an object array) and y is zero.
DivRaises(b) == data.dtype = "object" /\ b = Zero

\* the value of a local name: the one element of a singleton set
Only(S) == CHOOSE x \in S : TRUE

RECURSIVE SumTo(_, _)
\* np.sum of the one-dimensional array f[0 .. n-1]
SumTo(f, n) == IF n = 0 THEN Zero ELSE Add(SumTo(f, n - 1), f[n - 1])

\* np.mean of the one-dimensional array f[0 .. n-1]
MeanOf(f, n) == Div(SumTo(f, n), Num(n))

(***************************************************************************)
(* Enumerations of statistics.py.                                          *)
(***************************************************************************)
Component == <<"OPERATOR", "PART", "OPERATOR_BY_PART", "MEASUREMENT",
               "MEASUREMENT_WITHOUT_INTERACTION", "TOTAL">>

MyComponent == <<"GRR", "EV", "AV", "OPERATOR_BY_PART", "PV", "TOTAL_VAR">>

ComponentNoInter == <<"GRR_WITHOUT_INTERACTION", "EV_WITHOUT_INTERACTION",
                      "AV", "OPERATOR_BY_PART", "PV", "TOTAL_VAR">>

\* the keys of self.result in the order calculate() assigns them
ResultKeys == <<"DF", "Mean", "SS", "MS",
                "Var", "Std_results", "Std_percentage",
                "Std_results_without_interaction",
                "Std_percentage_without_interaction",
                "Variance", "Variance_no_inter",
                "Std", "F", "P">>

ResultNames == <<"DF", "SS", "MS", "F", "P">>

MyResultNames == <<"Variance", "Std_results", "Std_percentage">>

MyResultNamesNoInteraction ==
    <<"Variance_no_inter", "Std_results_without_interaction",
      "Std_percentage_without_interaction">>

Range(s) == {s[i] : i \in DOMAIN s}

(***************************************************************************)
(* Input arrays: shape <<operators, parts, measurements>>, element type    *)
(* and the observations, indexed from 0 as in numpy.                       *)
(***************************************************************************)
Shapes == {s \in (1..MaxDim) \X (1..MaxDim) \X (1..MaxDim) :
               s[1] * s[2] * s[3] <= MaxCells}

Cells(s) == (0..(s[1] - 1)) \X (0..(s[2] - 1)) \X (0..(s[3] - 1))

\* arrays that are 0 everywhere but in the first cell and one more cell
Arrays ==
    {[shape |-> s, dtype |-> t,
      at |-> [c \in Cells(s) |->
                 IF c = c2 THEN v2 ELSE IF c = <<0, 0, 0>> THEN v1 ELSE 0]] :
        <<s, t, c2, v1, v2>> \in
            {x \in Shapes \X {"float64", "object"} \X
                   ((0..(MaxDim - 1)) \X (0..(MaxDim - 1)) \X (0..(MaxDim - 1)))
                   \X (0..MaxVal) \X (0..MaxVal) :
                x[3] \in Cells(x[1])}}

NoArray == [shape |-> <<0, 0, 0>>, dtype |-> "none", at |-> <<>>]

Never == [op |-> "none", outcome |-> "none"]

Init ==
    /\ arg \in Arrays
    /\ exists = FALSE
    /\ data = NoArray
    /\ operators = 0
    /\ parts = 0
    /\ measurements = 0
    /\ labels = <<>>
    /\ hasResult = FALSE
    /\ result = <<>>
    /\ lastCall = Never
    /\ ret = <<>>
    /\ history = <<>>

(***************************************************************************)
(* GageRnR.__init__ / Statistics.__init__                                  *)
(***************************************************************************)
Construct ==
    /\ ~exists
    /\ exists' = TRUE
    /\ data' = arg
    /\ parts' = arg.shape[2]
    /\ operators' = arg.shape[1]
    /\ measurements' = arg.shape[3]
    /\ labels' = [Operator |-> [x \in 0..(arg.shape[1] - 1) |-> <<"Operator", x>>],
                  Part |-> [x \in 0..(arg.shape[2] - 1) |-> <<"Part", x>>]]
    /\ lastCall' = [op |-> "__init__", outcome |-> "returned"]
    /\ UNCHANGED <<arg, hasResult, result, ret, history>>

(***************************************************************************)
(* Statistics.calculateMean                                                *)
(***************************************************************************)
\* self.data[i, j, k] as a number
At(i, j, k) == Num(data.at[<<i, j, k>>])

calculateMean ==
    LET \* np.mean(self.data): the mean of the flattened array
        flat == [t \in 0..(operators * parts * measurements - 1) |->
                    At(t \div (parts * measurements),
                       (t \div measurements) % parts,
                       t % measurements)]
        mu == [i \in 0..0 |-> MeanOf(flat, operators * parts * measurements)]
        \* np.mean(self.data, axis=1), then np.mean(., axis=1)
        omu1 == [i \in 0..(operators - 1) |-> [k \in 0..(measurements - 1) |->
                    MeanOf([j \in 0..(parts - 1) |-> At(i, j, k)], parts)]]
        omu == [i \in 0..(operators - 1) |-> MeanOf(omu1[i], measurements)]
        \* np.mean(self.data, axis=0), then np.mean(., axis=1)
        pmu1 == [j \in 0..(parts - 1) |-> [k \in 0..(measurements - 1) |->
                    MeanOf([i \in 0..(operators - 1) |-> At(i, j, k)], operators)]]
        pmu == [j \in 0..(parts - 1) |-> MeanOf(pmu1[j], measurements)]
        \* np.mean(self.data, axis=2), reshaped to parts * operators entries
        emu2 == [i \in 0..(operators - 1) |-> [j \in 0..(parts - 1) |->
                    MeanOf([k \in 0..(measurements - 1) |-> At(i, j, k)],
                           measurements)]]
        emu == [r \in 0..(parts * operators - 1) |->
                    emu2[r \div parts][r % parts]]
    IN  [TOTAL |-> mu, OPERATOR |-> omu, PART |-> pmu, MEASUREMENT |-> emu]

(***************************************************************************)
(* GageRnR.calculateDoF                                                    *)
(***************************************************************************)
\* variant: the total is taken over from the result of an earlier run
calculateDoF_stale ==
    LET oDoF == operators - 1
        pDoF == parts - 1
        opDoF == (parts - 1) * (operators - 1)
        eDof == parts * operators * (measurements - 1)
        totDof == IF hasResult /\ "DF" \in DOMAIN result
                  THEN result.DF.TOTAL + 1
                  ELSE parts * operators * measurements - 1
    IN  [OPERATOR |-> oDoF,
         PART |-> pDoF,
         OPERATOR_BY_PART |-> opDoF,
         MEASUREMENT |-> eDof,
         MEASUREMENT_WITHOUT_INTERACTION |-> eDof + opDoF,
         TOTAL |-> totDof]

\* variant: the repeatability degrees of freedom count cells minus one
calculateDoF_wrong ==
    LET oDoF == operators - 1
        pDoF == parts - 1
        opDoF == (parts - 1) * (operators - 1)
        eDof == (parts * operators - 1) * (measurements - 1)
        totDof == parts * operators * measurements - 1
    IN  [OPERATOR |-> oDoF,
         PART |-> pDoF,
         OPERATOR_BY_PART |-> opDoF,
         MEASUREMENT |-> eDof,
         MEASUREMENT_WITHOUT_INTERACTION |-> eDof + opDoF,
         TOTAL |-> totDof]

calculateDoF ==
    LET oDoF == operators - 1
        pDoF == parts - 1
        opDoF == (parts - 1) * (operators - 1)
        eDof == parts * operators * (measurements - 1)
        totDof == parts * operators * measurements - 1
    IN  [OPERATOR |-> oDoF,
         PART |-> pDoF,
         OPERATOR_BY_PART |-> opDoF,
         MEASUREMENT |-> eDof,
         MEASUREMENT_WITHOUT_INTERACTION |-> eDof + opDoF,
         TOTAL |-> totDof]

(***************************************************************************)
(* GageRnR.calculateSquares                                                *)
(***************************************************************************)
calculateSquares ==
    LET Squares(mean) ==
      LET
        tS == [c \in Cells(<<operators, parts, measurements>>) |->
                  Sq(Sub(At(c[1], c[2], c[3]), mean.TOTAL[0]))]
        oS == [i \in 0..(operators - 1) |->
                  Sq(Sub(mean.OPERATOR[i], mean.TOTAL[0]))]
        pS == [j \in 0..(parts - 1) |->
                  Sq(Sub(mean.PART[j], mean.TOTAL[0]))]
        \* self.data.reshape(operators * parts, measurements)
        dataE == [r \in 0..(operators * parts - 1) |->
                     [k \in 0..(measurements - 1) |->
                         At(r \div parts, r % parts, k)]]
        \* np.repeat(mean[MEASUREMENT], measurements)
        rep == [t \in 0..(operators * parts * measurements - 1) |->
                   mean.MEASUREMENT[t \div measurements]]
        \* .reshape(operators * parts, measurements)
        meanMeas == [r \in 0..(operators * parts - 1) |->
                        [k \in 0..(measurements - 1) |->
                            rep[r * measurements + k]]]
        mS == [r \in 0..(operators * parts - 1) |->
                  [k \in 0..(measurements - 1) |->
                      Sq(Sub(dataE[r][k], meanMeas[r][k]))]]
      IN  [TOTAL |-> tS, OPERATOR |-> oS, PART |-> pS, MEASUREMENT |-> mS]
    IN  Only({Squares(mean) : mean \in {calculateMean}})

(***************************************************************************)
(* GageRnR.calculateSumOfDeviations                                        *)
(***************************************************************************)
calculateSumOfDeviations ==
    LET SD(squares) ==
      LET
        n == operators * parts * measurements
        tFlat == [t \in 0..(n - 1) |->
                     squares.TOTAL[<<t \div (parts * measurements),
                                     (t \div measurements) % parts,
                                     t % measurements>>]]
        mFlat == [t \in 0..(n - 1) |->
                     squares.MEASUREMENT[t \div measurements][t % measurements]]
      IN  [TOTAL |-> SumTo(tFlat, n),
           OPERATOR |-> SumTo(squares.OPERATOR, operators),
           PART |-> SumTo(squares.PART, parts),
           MEASUREMENT |-> SumTo(mFlat, n)]
    IN  Only({SD(squares) : squares \in {calculateSquares}})

(***************************************************************************)
(* GageRnR.calculateSS                                                     *)
(***************************************************************************)
\* variant: the interaction residual forgets the Measurement term
calculateSS_noMeasurement ==
    LET SS(SD) ==
      LET
        ssO == Mul(Num(parts * measurements), SD.OPERATOR)
        ssP == Mul(Num(operators * measurements), SD.PART)
        ssOP == Sub(SD.TOTAL, Add(ssO, ssP))
      IN  [TOTAL |-> SD.TOTAL,
           OPERATOR |-> ssO,
           PART |-> ssP,
           MEASUREMENT |-> SD.MEASUREMENT,
           OPERATOR_BY_PART |-> ssOP,
           MEASUREMENT_WITHOUT_INTERACTION |-> Add(SD.MEASUREMENT, ssOP)]
    IN  Only({SS(SD) : SD \in {calculateSumOfDeviations}})

\* variant: the Operator SS is weighted by the parts only
calculateSS_operatorWeight ==
    LET SS(SD) ==
      LET
        ssO == Mul(Num(parts), SD.OPERATOR)
        ssP == Mul(Num(operators * measurements), SD.PART)
        ssOP == Sub(SD.TOTAL, Add(Add(ssO, ssP), SD.MEASUREMENT))
      IN  [TOTAL |-> SD.TOTAL,
           OPERATOR |-> ssO,
           PART |-> ssP,
           MEASUREMENT |-> SD.MEASUREMENT,
           OPERATOR_BY_PART |-> ssOP,
           MEASUREMENT_WITHOUT_INTERACTION |-> Add(SD.MEASUREMENT, ssOP)]
    IN  Only({SS(SD) : SD \in {calculateSumOfDeviations}})

calculateSS ==
    LET SS(SD) ==
      LET
        ssO == Mul(Num(parts * measurements), SD.OPERATOR)
        ssP == Mul(Num(operators * measurements), SD.PART)
        ssOP == Sub(SD.TOTAL, Add(Add(ssO, ssP), SD.MEASUREMENT))
      IN  [TOTAL |-> SD.TOTAL,
           OPERATOR |-> ssO,
           PART |-> ssP,
           MEASUREMENT |-> SD.MEASUREMENT,
           OPERATOR_BY_PART |-> ssOP,
           MEASUREMENT_WITHOUT_INTERACTION |-> Add(SD.MEASUREMENT, ssOP)]
    IN  Only({SS(SD) : SD \in {calculateSumOfDeviations}})

(***************************************************************************)
(* GageRnR.calculateMS                                                     *)
(***************************************************************************)
MSKeys == {"OPERATOR", "PART", "MEASUREMENT", "OPERATOR_BY_PART",
           "MEASUREMENT_WITHOUT_INTERACTION"}

calculateMS(dof, SS) ==
    [key \in MSKeys |-> Div(SS[key], Num(dof[key]))]

\* calculateMS raises ZeroDivisionError
calculateMSRaises(dof, SS) ==
    \E key \in MSKeys : DivRaises(Num(dof[key]))

(***************************************************************************)
(* GageRnR.calculateVar                                                    *)
(***************************************************************************)
\* check_pos: every entry that is < 0 becomes 0
check_pos(Var) ==
    [key \in DOMAIN Var |-> IF Lt(Var[key], Zero) THEN Zero ELSE Var[key]]

\* variant: Total and GRR are summed first, the clamp comes after
MyVarOf_clampAfter(MS) ==
    LET Clamped(raw) ==
          check_pos(
            [EV |-> raw.EV,
             OPERATOR_BY_PART |-> raw.OPERATOR_BY_PART,
             AV |-> raw.AV,
             PV |-> raw.PV,
             TOTAL_VAR |-> Add(Add(Add(raw.AV, raw.PV), raw.OPERATOR_BY_PART),
                               raw.EV),
             GRR |-> Add(Add(raw.EV, raw.AV), raw.OPERATOR_BY_PART)])
        raw == [EV |-> MS.MEASUREMENT,
                OPERATOR_BY_PART |->
                    Div(Sub(MS.OPERATOR_BY_PART, MS.MEASUREMENT), Num(parts)),
                AV |->
                    Div(Sub(MS.OPERATOR, MS.OPERATOR_BY_PART),
                        Num(parts * measurements)),
                PV |->
                    Div(Sub(MS.PART, MS.OPERATOR_BY_PART),
                        Num(operators * measurements))]
    IN  Only({Clamped(r) : r \in {raw}})

\* the four term estimates, the clamp, then Total and GRR (with interaction)
MyVarOf(MS) ==
    LET raw == [EV |-> MS.MEASUREMENT,
                OPERATOR_BY_PART |->
                    Div(Sub(MS.OPERATOR_BY_PART, MS.MEASUREMENT), Num(parts)),
                AV |->
                    Div(Sub(MS.OPERATOR, MS.OPERATOR_BY_PART),
                        Num(parts * measurements)),
                PV |->
                    Div(Sub(MS.PART, MS.OPERATOR_BY_PART),
                        Num(operators * measurements))]
        Summed(v) ==
          [EV |-> v.EV,
           OPERATOR_BY_PART |-> v.OPERATOR_BY_PART,
           AV |-> v.AV,
           PV |-> v.PV,
           TOTAL_VAR |-> Add(Add(Add(v.AV, v.PV), v.OPERATOR_BY_PART), v.EV),
           GRR |-> Add(Add(v.EV, v.AV), v.OPERATOR_BY_PART)]
    IN  Only({Summed(v) : v \in {check_pos(r) : r \in {raw}}})

\* the same without interaction
MyVarNoInterOf(MS) ==
    LET raw == [EV_WITHOUT_INTERACTION |-> MS.MEASUREMENT_WITHOUT_INTERACTION,
                OPERATOR_BY_PART |->
                    Div(Sub(MS.OPERATOR_BY_PART,
                            MS.MEASUREMENT_WITHOUT_INTERACTION), Num(parts)),
                AV |->
                    Div(Sub(MS.OPERATOR, MS.OPERATOR_BY_PART),
                        Num(parts * measurements)),
                PV |->
                    Div(Sub(MS.PART, MS.OPERATOR_BY_PART),
                        Num(operators * measurements))]
        Summed(v) ==
          [EV_WITHOUT_INTERACTION |-> v.EV_WITHOUT_INTERACTION,
           OPERATOR_BY_PART |-> v.OPERATOR_BY_PART,
           AV |-> v.AV,
           PV |-> v.PV,
           TOTAL_VAR |-> Add(Add(Add(v.AV, v.PV), v.OPERATOR_BY_PART),
               v.EV_WITHOUT_INTERACTION),
           GRR_WITHOUT_INTERACTION |->
               Add(Add(v.EV_WITHOUT_INTERACTION, v.AV), v.OPERATOR_BY_PART)]
    IN  Only({Summed(v) : v \in {check_pos(r) : r \in {raw}}})

\* MyStd / MyStd_no_interaction: math.sqrt of every variance
StdOf(Var) == [key \in DOMAIN Var |-> Sqrt(Var[key])]

\* MyStd_percent: 100 * math.sqrt(Var[key] / Var[TOTAL_VAR]) for every key
MyStdPercentOf(Var) ==
    [key \in DOMAIN Var |-> Times100(Sqrt(Div(Var[key], Var.TOTAL_VAR)))]

\* variant: the Total percent is computed like the others
MyStdPercentNoInterOf_computed(Var) ==
    [key \in DOMAIN Var |-> Times100(Sqrt(Div(Var[key], Var.TOTAL_VAR)))]

\* MyStd_percent_no_interaction: as above, but TOTAL_VAR is the literal 100
MyStdPercentNoInterOf(Var) ==
    [key \in DOMAIN Var |->
        IF key = "TOTAL_VAR" THEN Hundred
        ELSE Times100(Sqrt(Div(Var[key], Var.TOTAL_VAR)))]

\* the first exception one variant of calculateVar raises, or "none"
VariantError(Var, percentKeys) ==
    IF \E key \in DOMAIN Var : SqrtRaises(Var[key]) THEN "ValueError"
    ELSE IF DivRaises(Var.TOTAL_VAR) THEN "ZeroDivisionError"
    ELSE IF \E key \in percentKeys : SqrtRaises(Div(Var[key], Var.TOTAL_VAR))
         THEN "ValueError"
    ELSE "none"

calculateVarError(MS) ==
    LET Error(MyVar, MyVar_no_inter) ==
          LET e1 == VariantError(MyVar, Range(MyComponent))
          IN  IF e1 # "none" THEN e1
              ELSE VariantError(MyVar_no_inter,
                                Range(ComponentNoInter) \ {"TOTAL_VAR"})
    IN  Only({Error(MyVar, MyVar_no_inter) :
                 MyVar \in {MyVarOf(MS)},
                 MyVar_no_inter \in {MyVarNoInterOf(MS)}})

\* the tuple calculateVar returns
calculateVar(MS) ==
    LET Returned(MyVar, MyVar_no_inter) ==
          [MyVar |-> MyVar,
           MyStd |-> StdOf(MyVar),
           MyStd_percent |-> MyStdPercentOf(MyVar),
           MyStd_no_interaction |-> StdOf(MyVar_no_inter),
           MyStd_percent_no_interaction |->
               MyStdPercentNoInterOf(MyVar_no_inter),
           MyVar_no_inter |-> MyVar_no_inter]
    IN  Only({Returned(MyVar, MyVar_no_inter) :
                 MyVar \in {MyVarOf(MS)},
                 MyVar_no_inter \in {MyVarNoInterOf(MS)}})

(***************************************************************************)
(* GageRnR.calculateStd, calculateF, calculateP                            *)
(***************************************************************************)
calculateStd(Var) == [key \in DOMAIN Var |-> Sqrt(Var[key])]

calculateStdError(Var) ==
    IF \E key \in DOMAIN Var : SqrtRaises(Var[key]) THEN "ValueError"
    ELSE "none"

calculateF(MS) ==
    [OPERATOR |-> Div(MS.OPERATOR, MS.OPERATOR_BY_PART),
     PART |-> Div(MS.PART, MS.OPERATOR_BY_PART),
     OPERATOR_BY_PART |-> Div(MS.OPERATOR_BY_PART, MS.MEASUREMENT)]

calculateFError(MS) ==
    IF DivRaises(MS.OPERATOR_BY_PART) \/ DivRaises(MS.MEASUREMENT)
    THEN "ZeroDivisionError" ELSE "none"

\* scipy.stats.f.sf(F, dfn, dfd) is kept as the application it is
calculateP(dof, F) ==
    [OPERATOR |->
        [sf |-> <<F.OPERATOR, dof.OPERATOR, dof.OPERATOR_BY_PART>>],
     PART |->
        [sf |-> <<F.PART, dof.PART, dof.OPERATOR_BY_PART>>],
     OPERATOR_BY_PART |->
        [sf |-> <<F.OPERATOR_BY_PART, dof.OPERATOR_BY_PART, dof.MEASUREMENT>>]]

(***************************************************************************)
(* GageRnR.calculate: the dictionary it builds and the exception that      *)
(* ends it, if any.  self.result is assigned first and filled in key by    *)
(* key, so a step that raises leaves the keys assigned before it.          *)
(***************************************************************************)
Restrict(f, S) == [key \in S |-> f[key]]

KeysBefore(key) ==
    LET i == CHOOSE j \in DOMAIN ResultKeys : ResultKeys[j] = key
    IN  {ResultKeys[j] : j \in 1..(i - 1)}

\* the steps after calculateMS
AfterMS(DF, Mean, SS, MS) ==
    LET Full(V, Std, F, P) ==
          [DF |-> DF, Mean |-> Mean, SS |-> SS, MS |-> MS,
           Var |-> V.MyVar,
           Std_results |-> V.MyStd,
           Std_percentage |-> V.MyStd_percent,
           Std_results_without_interaction |-> V.MyStd_no_interaction,
           Std_percentage_without_interaction |->
               V.MyStd_percent_no_interaction,
           Variance |-> V.MyVar,
           Variance_no_inter |-> V.MyVar_no_inter,
           Std |-> Std, F |-> F, P |-> P]
        Rest(V, Std, F, P, full) ==
          IF calculateStdError(V.MyVar) # "none"
          THEN [err |-> calculateStdError(V.MyVar),
                result |-> Restrict(full, KeysBefore("Std"))]
          ELSE IF calculateFError(MS) # "none"
          THEN [err |-> calculateFError(MS),
                result |-> Restrict(full, KeysBefore("F"))]
          ELSE [err |-> "none", result |-> full]
        AfterVar(V, Std, F) ==
          Only({Rest(V, Std, F, P, full) :
                   <<P, full>> \in {<<p, Full(V, Std, F, p)>> :
                                       p \in {calculateP(DF, F)}}})
    IN  IF calculateVarError(MS) # "none"
        THEN [err |-> calculateVarError(MS),
              result |-> [DF |-> DF, Mean |-> Mean, SS |-> SS, MS |-> MS]]
        ELSE Only({AfterVar(V, Std, F) :
                      <<V, Std>> \in {<<v, calculateStd(v.MyVar)>> :
                                         v \in {calculateVar(MS)}},
                      F \in {calculateF(MS)}})

\* the steps after calculateSS
AfterSS(DF, Mean, SS) ==
    IF calculateMSRaises(DF, SS)
    THEN [err |-> "ZeroDivisionError",
          result |-> [DF |-> DF, Mean |-> Mean, SS |-> SS]]
    ELSE Only({AfterMS(DF, Mean, SS, MS) : MS \in {calculateMS(DF, SS)}})

calculateRun ==
    Only({AfterSS(DF, Mean, SS) :
             DF \in {calculateDoF},
             Mean \in {calculateMean},
             SS \in {calculateSS}})

Calculate ==
    /\ exists
    /\ LET run == calculateRun
       IN  /\ hasResult' = TRUE
           /\ result' = run.result
           /\ lastCall' = [op |-> "calculate",
                           outcome |-> IF run.err = "none" THEN "returned"
                                       ELSE run.err]
           /\ history' = IF run.err # "none" THEN history
                         ELSE IF Len(history) < 2
                         THEN Append(history, run.result)
                         ELSE <<history[2], run.result>>
    /\ ret' = <<>>
    /\ UNCHANGED <<arg, exists, data, operators, parts, measurements, labels>>

(***************************************************************************)
(* The summaries.  format(value, precision) and tabulate(...) are kept as  *)
(* the applications they are: a formatted cell is <<precision, value>>,    *)
(* the empty cell '' is <<>>.                                              *)
(***************************************************************************)
ComponentNames ==
    [OPERATOR |-> "Operator",
     PART |-> "Part",
     OPERATOR_BY_PART |-> "Operator by Part",
     MEASUREMENT |-> "Measurement (with interaction)",
     TOTAL |-> "Total",
     MEASUREMENT_WITHOUT_INTERACTION |-> "Measurement (without interaction)"]

MyComponentNames ==
    [GRR |-> "GRR",
     EV |-> "Equipment (Repetability)",
     AV |-> "Operators",
     OPERATOR_BY_PART |-> "Interaction",
     PV |-> "Parts",
     TOTAL_VAR |-> "Total"]

ComponentNamesNoInter ==
    [GRR_WITHOUT_INTERACTION |-> "GRR without interaction",
     EV_WITHOUT_INTERACTION |-> "Equipment (Repetability) without interaction",
     AV |-> "Operators",
     OPERATOR_BY_PART |-> "Interaction",
     PV |-> "Parts",
     TOTAL_VAR |-> "Total"]

NotCalculated == "calculate() should be run before calling summary()"

\* the rows the loops of a summary build from self.result
TableRows(comps, names, keys, precision) ==
    [c \in DOMAIN comps |->
        <<names[comps[c]]>> \o
        [k \in DOMAIN keys |->
            IF comps[c] \in DOMAIN result[keys[k]]
            THEN <<precision, result[keys[k]][comps[c]]>>
            ELSE <<>>]]

\* the guard of every summary: not hasattr(self, 'result')
Uncalculated_never == FALSE

Uncalculated_inverted == hasResult

Uncalculated == ~hasResult

\* one summary call: the not-calculated check, the loops (self.result[key]
\* raises KeyError on a key the result lacks), then the value returned
SummaryCall(op, comps, names, keys, precision, rendered) ==
    /\ exists
    /\ IF Uncalculated
       THEN /\ lastCall' = [op |-> op, outcome |-> NotCalculated]
            /\ ret' = <<>>
       ELSE IF \E k \in DOMAIN keys : keys[k] \notin DOMAIN result
       THEN /\ lastCall' = [op |-> op, outcome |-> "KeyError"]
            /\ ret' = <<>>
       ELSE /\ lastCall' = [op |-> op, outcome |-> "returned"]
            /\ ret' = [tabulate |-> rendered,
                       rows |-> TableRows(comps, names, keys, precision)]
    /\ UNCHANGED <<arg, exists, data, operators, parts, measurements, labels,
                   hasResult, result, history>>

TableFormats == {"fancy_grid"}

summary ==
    \E tableFormat \in TableFormats :
        SummaryCall("summary", Component, ComponentNames, ResultNames,
                    ".3f", tableFormat)

summary_2 ==
    \E tableFormat \in TableFormats :
        SummaryCall("summary_2", MyComponent, MyComponentNames, MyResultNames,
                    ".3f", tableFormat)

summary_3 ==
    \E tableFormat \in TableFormats :
        SummaryCall("summary_3", ComponentNoInter, ComponentNamesNoInter,
                    MyResultNamesNoInteraction, ".3f", tableFormat)

\* returns the rows themselves, not a rendered table
summary_instruments ==
    SummaryCall("summary_instruments", MyComponent, MyComponentNames,
                MyResultNames, ".10f", "none")

SummaryOps == {"summary", "summary_2", "summary_3", "summary_instruments"}

(***************************************************************************)
(* Statistics.createOperatorsBoxData / createPartsBoxData                  *)
(***************************************************************************)
createOperatorsBoxData ==
    /\ exists
    /\ ret' = [i \in 0..(operators - 1) |->
                  [y |-> [t \in 0..(parts * measurements - 1) |->
                             data.at[<<i, t \div measurements, t % measurements>>]],
                   name |-> labels.Operator[i]]]
    /\ lastCall' = [op |-> "createOperatorsBoxData", outcome |-> "returned"]
    /\ UNCHANGED <<arg, exists, data, operators, parts, measurements, labels,
                   hasResult, result, history>>

createPartsBoxData ==
    /\ exists
    /\ ret' = [i \in 0..(parts - 1) |->
                  [y |-> [t \in 0..(operators * measurements - 1) |->
                             data.at[<<t \div measurements, i, t % measurements>>]],
                   name |-> labels.Part[i]]]
    /\ lastCall' = [op |-> "createPartsBoxData", outcome |-> "returned"]
    /\ UNCHANGED <<arg, exists, data, operators, parts, measurements, labels,
                   hasResult, result, history>>

(***************************************************************************)
(* Statistics.__str__: the shape text while there is no result, else       *)
(* self.summary() with its default arguments.  str(list) is kept as the    *)
(* application it is.                                                      *)
(***************************************************************************)
ShapeText == <<"Shape: ", [str |-> <<operators, parts, measurements>>]>>

\* variant: no branch for the object without a result
__str__unguarded ==
    SummaryCall("__str__", Component, ComponentNames, ResultNames,
                ".3f", "fancy_grid")

__str__ ==
    IF ~hasResult
    THEN /\ exists
         /\ lastCall' = [op |-> "__str__", outcome |-> "returned"]
         /\ ret' = ShapeText
         /\ UNCHANGED <<arg, exists, data, operators, parts, measurements,
                        labels, hasResult, result, history>>
    ELSE SummaryCall("__str__", Component, ComponentNames, ResultNames,
                     ".3f", "fancy_grid")

Next ==
    \/ Construct
    \/ Calculate
    \/ summary
    \/ summary_2
    \/ summary_3
    \/ summary_instruments
    \/ createOperatorsBoxData
    \/ createPartsBoxData
    \/ __str__

(***************************************************************************)
(* Properties.                                                             *)
(***************************************************************************)
\* the result holds every quantity kind
Complete == hasResult /\ DOMAIN result = Range(ResultKeys)

\* C1: on an object without a result, a summary call raises the
\* not-calculated error, returns nothing and leaves the object without a
\* result.
C1_SummaryBeforeCalculate ==
    [][(~hasResult /\ lastCall'.op \in SummaryOps) =>
          /\ lastCall'.outcome = NotCalculated
          /\ ret' = <<>>
          /\ ~hasResult']_vars

C1_Witness ==
    /\ exists
    /\ ~hasResult
    /\ lastCall.op = "summary_3"
    /\ lastCall.outcome = NotCalculated

\* C2: the object gets a result only through calculate() and never loses
\* it, and once it has one no summary raises the not-calculated error.
C2_CalculatedIsIrreversible ==
    [][/\ hasResult => hasResult'
       /\ (~hasResult /\ hasResult') => lastCall'.op = "calculate"
       /\ (hasResult /\ lastCall'.op \in SummaryOps) =>
              lastCall'.outcome # NotCalculated]_vars

C2_Witness ==
    /\ Len(history) > 0
    /\ lastCall.op = "summary"
    /\ lastCall.outcome = "returned"

\* C3: after a calculate() that raised, the object has no result or a
\* complete one.
C3_NoPartialResult ==
    (lastCall.op = "calculate" /\ lastCall.outcome # "returned") =>
        (~hasResult \/ DOMAIN result = Range(ResultKeys))

\* C4: an object exists only for designs with at least 2 operators, 2 parts
\* and 2 measurements per cell.
C4_DegenerateDesignRejected ==
    exists => (operators >= 2 /\ parts >= 2 /\ measurements >= 2)

\* C5: two calculate() calls on the same object return equal results.
C5_CalculateIdempotent ==
    \A i, j \in DOMAIN history : history[i] = history[j]

C5_Witness ==
    /\ Len(history) = 2
    /\ history[1] = history[2]
    /\ history[2].SS.TOTAL # Zero

\* C6: Operator + Part + Operator-by-Part + Measurement DoF = Total DoF
\* = operators * parts * measurements - 1.
C6_DoFAdditivity ==
    (hasResult /\ "DF" \in DOMAIN result) =>
        /\ result.DF.OPERATOR + result.DF.PART + result.DF.OPERATOR_BY_PART
               + result.DF.MEASUREMENT = result.DF.TOTAL
        /\ result.DF.TOTAL = data.shape[1] * data.shape[2] * data.shape[3] - 1

C6_Witness ==
    /\ hasResult
    /\ result.DF.OPERATOR = 1
    /\ result.DF.MEASUREMENT = 4
    /\ result.DF.TOTAL = 7

RECURSIVE SumOver(_, _)
\* the sum of the numbers f[c], c in S
SumOver(S, f) ==
    IF S = {} THEN Zero
    ELSE LET c == CHOOSE x \in S : TRUE
         IN  Add(f[c], SumOver(S \ {c}, f))

\* the (operator, part) cell an observation belongs to
CellOf(c) == {x \in DOMAIN data.at : x[1] = c[1] /\ x[2] = c[2]}

AvgOver(S) ==
    Div(SumOver(S, [c \in S |-> Num(data.at[c])]), Num(Cardinality(S)))

\* sum of squared deviations of every observation from the grand mean
TotalDeviation ==
    SumOver(DOMAIN data.at,
            [c \in DOMAIN data.at |->
                Sq(Sub(Num(data.at[c]), AvgOver(DOMAIN data.at)))])

\* sum of squared deviations of every observation from its cell mean
WithinCellDeviation ==
    SumOver(DOMAIN data.at,
            [c \in DOMAIN data.at |->
                Sq(Sub(Num(data.at[c]), AvgOver(CellOf(c))))])

\* C7: Operator SS + Part SS + Operator-by-Part SS + Measurement SS =
\* Total SS, Total SS being the squared deviations from the grand mean and
\* Measurement SS the squared deviations from the cell means.
C7_PartitionIdentity ==
    (hasResult /\ "SS" \in DOMAIN result) =>
        /\ Add(Add(Add(result.SS.OPERATOR, result.SS.PART),
                   result.SS.OPERATOR_BY_PART), result.SS.MEASUREMENT)
               = result.SS.TOTAL
        /\ result.SS.TOTAL = TotalDeviation
        /\ result.SS.MEASUREMENT = WithinCellDeviation

C7_Witness ==
    /\ hasResult
    /\ Lt(Zero, result.SS.OPERATOR)
    /\ Lt(Zero, result.SS.OPERATOR_BY_PART)
    /\ Lt(Zero, result.SS.MEASUREMENT)
    /\ Lt(result.SS.MEASUREMENT, result.SS.TOTAL)

\* C8: every variance component and every standard deviation of a result
\* is >= 0, with and without interaction.
C8_NonNegative ==
    Complete =>
        /\ \A q \in {"Var", "Variance", "Variance_no_inter"} :
               \A key \in DOMAIN result[q] : Ge(result[q][key], Zero)
        /\ \A q \in {"Std", "Std_results", "Std_results_without_interaction"} :
               \A key \in DOMAIN result[q] : Ge(result[q][key].sq, Zero)

\* the term estimates before the clamp, from the mean squares of the result
RawTerms(ev) ==
    [EV |-> result.MS[ev],
     OPERATOR_BY_PART |->
         Div(Sub(result.MS.OPERATOR_BY_PART, result.MS[ev]), Num(parts)),
     AV |-> Div(Sub(result.MS.OPERATOR, result.MS.OPERATOR_BY_PART),
                Num(parts * measurements)),
     PV |-> Div(Sub(result.MS.PART, result.MS.OPERATOR_BY_PART),
                Num(operators * measurements))]

\* V holds the clamped terms, and Total and GRR are sums of them
ClampedThenSummed(V, ev, grr, raw) ==
    /\ \A t \in {"EV", "OPERATOR_BY_PART", "AV", "PV"} :
          LET term == IF t = "EV" THEN ev ELSE t
          IN  /\ Lt(raw[t], Zero) => V[term] = Zero
              /\ ~Lt(raw[t], Zero) => V[term] = raw[t]
    /\ V.TOTAL_VAR = Add(Add(Add(V.AV, V.PV), V.OPERATOR_BY_PART), V[ev])
    /\ V[grr] = Add(Add(V[ev], V.AV), V.OPERATOR_BY_PART)
    /\ \A key \in DOMAIN V : ~Lt(V.TOTAL_VAR, V[key])

\* C9: in both variants a negative term estimate is replaced by zero before
\* Total = AV + PV + Interaction + EV and GRR = EV + AV + Interaction are
\* formed, so Total is never smaller than a reported term.
C9_ClampBeforeAggregation ==
    Complete =>
        /\ ClampedThenSummed(result.Variance, "EV", "GRR",
                             RawTerms("MEASUREMENT"))
        /\ ClampedThenSummed(result.Variance_no_inter,
                             "EV_WITHOUT_INTERACTION",
                             "GRR_WITHOUT_INTERACTION",
                             RawTerms("MEASUREMENT_WITHOUT_INTERACTION"))

C9_Witness ==
    /\ Complete
    /\ Lt(RawTerms("MEASUREMENT").AV, Zero)
    /\ Lt(RawTerms("MEASUREMENT_WITHOUT_INTERACTION").PV, Zero)
    /\ result.Variance.AV = Zero
    /\ result.Variance_no_inter.PV = Zero
    /\ Lt(Zero, result.Variance.TOTAL_VAR)

\* C10: the without-interaction Total percent is exactly 100 for every
\* input; the with-interaction Total percent is 100 whenever the
\* with-interaction Total variance is > 0.
C10_TotalPercent ==
    Complete =>
        /\ result.Std_percentage_without_interaction.TOTAL_VAR = Hundred
        /\ Lt(Zero, result.Variance.TOTAL_VAR) =>
               result.Std_percentage.TOTAL_VAR = Hundred

C10_Witness ==
    /\ Complete
    /\ Lt(Zero, result.Variance.TOTAL_VAR)
    /\ result.Std_percentage.TOTAL_VAR = Hundred
    /\ result.Std_percentage_without_interaction.TOTAL_VAR = Hundred

\* a design with at least 2 operators, 2 parts and 2 measurements whose
\* observations are all equal
AllEqualDesign ==
    /\ exists
    /\ operators >= 2 /\ parts >= 2 /\ measurements >= 2
    /\ \A c \in DOMAIN data.at : data.at[c] = data.at[<<0, 0, 0>>]

\* C11: on an all-equal design with every dimension >= 2, calculate() does
\* not raise, every SS, MS, variance and standard deviation of the result
\* is 0 and every F statistic is NaN.
C11_AllEqualCompletes ==
    AllEqualDesign =>
        /\ lastCall.op = "calculate" => lastCall.outcome = "returned"
        /\ hasResult =>
             /\ Complete
             /\ \A key \in DOMAIN result.SS : result.SS[key] = Zero
             /\ \A key \in DOMAIN result.MS : result.MS[key] = Zero
             /\ \A q \in {"Var", "Variance", "Variance_no_inter"} :
                    \A key \in DOMAIN result[q] : result[q][key] = Zero
             /\ \A q \in {"Std", "Std_results",
                          "Std_results_without_interaction"} :
                    \A key \in DOMAIN result[q] : result[q][key] = Sqrt(Zero)
             /\ \A key \in DOMAIN result.F : IsNaN(result.F[key])

\* C12 as stated: __str__ on an object without a result raises the
\* not-calculated error.
C12_StrBeforeCalculateFails ==
    (~hasResult /\ lastCall.op = "__str__") =>
        lastCall.outcome = NotCalculated

\* C12, amended: __str__ on an object without a result does not fail; it
\* returns the text 'Shape: [operators, parts, measurements]' and the
\* object stays without a result.
C12_StrBeforeCalculateReturnsShape ==
    (~hasResult /\ lastCall.op = "__str__") =>
        /\ lastCall.outcome = "returned"
        /\ ret = <<"Shape: ", [str |-> <<data.shape[1], data.shape[2],
                                         data.shape[3]>>]>>

C12_Witness ==
    /\ ~hasResult
    /\ lastCall.op = "__str__"
    /\ ret = <<"Shape: ", [str |-> <<2, 1, 2>>]>>

\* the observations of one operator, and of one part
OperatorRow(i) == {x \in DOMAIN data.at : x[1] = i}

PartColumn(j) == {x \in DOMAIN data.at : x[2] = j}

\* measurements * sum over the (operator, part) cells of
\* (cell mean - operator mean - part mean + grand mean)^2
InteractionDeviation ==
    LET cells == (0..(data.shape[1] - 1)) \X (0..(data.shape[2] - 1))
        Term(c, grand) ==
            Sq(Add(Sub(Sub(AvgOver(CellOf(c)), AvgOver(OperatorRow(c[1]))),
                       AvgOver(PartColumn(c[2]))), grand))
        Total(grand) ==
            Mul(Num(data.shape[3]),
                SumOver(cells, [c \in cells |-> Term(c, grand)]))
    IN  Only({Total(grand) : grand \in {AvgOver(DOMAIN data.at)}})

\* C13: the Operator-by-Part SS obtained by subtraction equals the direct
\* interaction sum of squares and is never negative.
C13_InteractionByDefinition ==
    (hasResult /\ "SS" \in DOMAIN result) =>
        /\ result.SS.OPERATOR_BY_PART = InteractionDeviation
        /\ Ge(result.SS.OPERATOR_BY_PART, Zero)

C13_Witness ==
    /\ hasResult
    /\ Lt(Zero, result.SS.OPERATOR)
    /\ Lt(Zero, result.SS.PART)
    /\ Lt(Zero, result.SS.MEASUREMENT)
    /\ Lt(Zero, result.SS.OPERATOR_BY_PART)
    /\ result.SS.OPERATOR_BY_PART = InteractionDeviation

Spec == Init /\ [][Next]_vars
====
